---------------------------- MODULE Spec2Model ----------------------------
(***************************************************************************)
(* Model of the SimpleCar-Planning MPC driver (src/src/MPC_simulate.cpp,   *)
(* function main) and of the ValidityChecker interface                     *)
(* (src/include/ValidityChecker.h).                                        *)
(*                                                                         *)
(* main is a sequential program; it is modelled by a program counter pc    *)
(* and one action per step of the source.  The reference file is the       *)
(* environment: whether it opens, and what each std::getline returns, are  *)
(* inputs chosen when the program asks for them.  A line is a sequence of  *)
(* whitespace separated tokens; a token is text, and operator>> converts   *)
(* it (StrToD) or fails.  Tokens are numerals a double represents ("1",    *)
(* "2") or text that is no number ("x"); numerals out of the range of a    *)
(* double are not among the inputs.  The ACADO calls sim.init and sim.run  *)
(* are external: they return SUCCESSFUL_RETURN or some other return value. *)
(***************************************************************************)
EXTENDS Integers, Sequences, FiniteSets, TLC

\* ---------------------------------------------------------------- bounds
MaxLines  == 2      \* most lines the reference file holds
MaxTokens == 3      \* most tokens on one line of the file
MaxOut    == 1      \* most grid points the simulation logs
NumStates == 3      \* planner states handed to the validity checker
MaxCalls  == 3      \* most calls made on the validity checker

\* ------------------------------------------------------ program constants
NumComp   == 3      \* std::vector<double> s(3, 0)
tTotal    == 70     \* const double tTotal = 70.0

Token   == {"1", "2", "x"}
Numeric == {"1", "2"}

\* the text-to-double conversion done by operator>>(double&)
StrToD(t) == CASE t = "1" -> 1
               [] t = "2" -> 2
               [] OTHER   -> 0

Line == UNION {[1..n -> Token] : n \in 0..MaxTokens}

ReturnValue == {"SUCCESSFUL_RETURN", "OTHER_RETURN"}

MsgOpen  == "cannot open reference state file!"
MsgEmpty == "failed to store the reference in ref_states!"

VARIABLES
  pc,                 \* position of main
  xref,               \* the std::ifstream: "unopened", "good", "failbit",
                      \* "eofbit|failbit"
  line,               \* std::string line (as tokens)
  linesRead,          \* number of successful std::getline calls
  ref_states,         \* std::vector<std::vector<double>>
  num_waypoints,      \* int num_waypoints
  totalSteps,         \* const int totalSteps
  dt,                 \* const double dt, kept as the fraction <<num, den>>
  reference_grid,     \* rows of the VariablesGrid that main assigns
  x0,                 \* DVector x0
  initRet,            \* value returned by sim.init, "not_called" before
  runRet,             \* value returned by sim.run, "not_called" before
  initCalls,          \* number of calls of sim.init
  runCalls,           \* number of calls of sim.run
  outputStatesApp,    \* number of points of the logged state grid
  outputControlsApp,  \* number of points of the logged control grid
  output_states_app,  \* ../data/output_states.txt
  output_controls_app,\* ../data/output_controls.txt
  cerr,               \* messages written to std::cerr
  exitStatus,         \* "running", "EXIT_FAILURE", "0"
  vcState,            \* the ob::State the planner hands to the checker
  vcChecker,          \* the ValidityChecker object
  vcValid,            \* the body of isValid, a function of the state
  vcClearance,        \* the body of clearance, a function of the state
  vcAnswers,          \* answers isValid has returned so far, per state
  vcDistances,        \* values clearance has returned so far, per state
  vcCalls             \* number of calls made on the checker

mainVars == <<pc, xref, line, linesRead, ref_states, num_waypoints, totalSteps,
              dt, reference_grid, x0, initRet, runRet, initCalls, runCalls,
              outputStatesApp, outputControlsApp, output_states_app,
              output_controls_app, cerr, exitStatus>>
vcVars   == <<vcState, vcChecker, vcValid, vcClearance, vcAnswers, vcDistances,
              vcCalls>>
vars     == <<mainVars, vcVars>>

NoFile == [open |-> FALSE, rows |-> <<>>]

MainInit ==
  /\ pc = "open"
  /\ xref = "unopened"
  /\ line = <<>>
  /\ linesRead = 0
  /\ ref_states = <<>>
  /\ num_waypoints = 0
  /\ totalSteps = 0
  /\ dt = <<0, 1>>
  /\ reference_grid = <<>>
  /\ x0 = <<0, 0, 0>>
  /\ initRet = "not_called"
  /\ runRet = "not_called"
  /\ initCalls = 0
  /\ runCalls = 0
  /\ outputStatesApp = 0
  /\ outputControlsApp = 0
  /\ output_states_app = NoFile
  /\ output_controls_app = NoFile
  /\ cerr = <<>>
  /\ exitStatus = "running"

VCIdle ==
  /\ vcState = 1
  /\ vcChecker = [si |-> "si"]
  /\ vcValid = [s \in 1..NumStates |-> TRUE]
  /\ vcClearance = [s \in 1..NumStates |-> 0]
  /\ vcAnswers = [s \in 1..NumStates |-> {}]
  /\ vcDistances = [s \in 1..NumStates |-> {}]
  /\ vcCalls = 0

Init == MainInit /\ VCIdle

\* ------------------------------------------------------------ main: open
\* std::ifstream xref(states_file)
OpenFile ==
  /\ pc = "open"
  /\ \E ok \in BOOLEAN : xref' = IF ok THEN "good" ELSE "failbit"
  /\ pc' = "check_open"
  /\ UNCHANGED <<line, linesRead, ref_states, num_waypoints, totalSteps, dt,
                 reference_grid, x0, initRet, runRet, initCalls, runCalls,
                 outputStatesApp, outputControlsApp, output_states_app,
                 output_controls_app, cerr, exitStatus>>
  /\ UNCHANGED vcVars

\* exit(EXIT_FAILURE)
Exit(msgs) ==
  /\ cerr' = cerr \o msgs
  /\ exitStatus' = "EXIT_FAILURE"
  /\ pc' = "exited"

\* a mutant: report the unopenable file and carry on
CheckOpen_noexit ==
  /\ pc = "check_open"
  /\ IF xref # "good"
       THEN /\ cerr' = Append(cerr, MsgOpen)
            /\ pc' = "getline"
            /\ UNCHANGED exitStatus
       ELSE /\ pc' = "getline"
            /\ UNCHANGED <<cerr, exitStatus>>
  /\ UNCHANGED <<xref, line, linesRead, ref_states, num_waypoints, totalSteps,
                 dt, reference_grid, x0, initRet, runRet, initCalls, runCalls,
                 outputStatesApp, outputControlsApp, output_states_app,
                 output_controls_app>>
  /\ UNCHANGED vcVars

\* if(!xref){ cerr << ...; exit(EXIT_FAILURE); }
CheckOpen ==
  /\ pc = "check_open"
  /\ IF xref # "good"
       THEN Exit(<<MsgOpen>>)
       ELSE /\ pc' = "getline"
            /\ UNCHANGED <<cerr, exitStatus>>
  /\ UNCHANGED <<xref, line, linesRead, ref_states, num_waypoints, totalSteps,
                 dt, reference_grid, x0, initRet, runRet, initCalls, runCalls,
                 outputStatesApp, outputControlsApp, output_states_app,
                 output_controls_app>>
  /\ UNCHANGED vcVars

\* ------------------------------------------------------ main: load loop
\* The std::istringstream of one line: pos is the next token, fail the failbit.
\* One "iss >> *vit": a stream that already failed extracts nothing and leaves
\* the target alone; at the end of the line the extraction fails and the
\* target keeps its value; a token that is no number fails the stream and
\* stores 0; a number is converted and stored.
Extract(l, st, old) ==
  IF st.fail THEN [st |-> st, val |-> old]
  ELSE IF st.pos > Len(l) THEN [st |-> [st EXCEPT !.fail = TRUE], val |-> old]
  ELSE IF l[st.pos] \in Numeric
         THEN [st |-> [st EXCEPT !.pos = st.pos + 1], val |-> StrToD(l[st.pos])]
         ELSE [st |-> [st EXCEPT !.fail = TRUE], val |-> 0]

\* for(vit = s.begin(); vit != vend; vit++) iss >> *vit;   from slot k on
RECURSIVE FillFrom(_, _, _, _)
FillFrom(l, s, k, st) ==
  IF k > Len(s) THEN s
  ELSE LET r == Extract(l, st, s[k])
       IN  FillFrom(l, [s EXCEPT ![k] = r.val], k + 1, r.st)

\* a mutant: the extraction loop stops one component early
ParseLine_short(l) ==
  LET s == FillFrom(l, [k \in 1..NumComp |-> 0], 1, [pos |-> 1, fail |-> FALSE])
  IN  [s EXCEPT ![NumComp] = 0]

\* std::vector<double> s(3, 0); std::istringstream iss(line); the for loop
ParseLine(l) ==
  FillFrom(l, [k \in 1..NumComp |-> 0], 1, [pos |-> 1, fail |-> FALSE])

\* while(std::getline(xref, line)) { ...; ref_states.push_back(s); num_waypoints++; }
LoopBody ==
  /\ pc = "getline"
  /\ linesRead < MaxLines
  /\ \E l \in Line :
       /\ line' = l
       /\ ref_states' = Append(ref_states, ParseLine(l))
  /\ linesRead' = linesRead + 1
  /\ num_waypoints' = num_waypoints + 1
  /\ UNCHANGED <<pc, xref, totalSteps, dt, reference_grid, x0, initRet, runRet,
                 initCalls, runCalls, outputStatesApp, outputControlsApp,
                 output_states_app, output_controls_app, cerr, exitStatus>>
  /\ UNCHANGED vcVars

\* std::getline fails at the end of the file.  After a final newline the
\* call clears line before it finds nothing to read; without one the stream
\* already carries eofbit and line is left as it was.
LoopEnd ==
  /\ pc = "getline"
  /\ \E cleared \in BOOLEAN : line' = IF cleared THEN <<>> ELSE line
  /\ xref' = "eofbit|failbit"
  /\ pc' = "check_empty"
  /\ UNCHANGED <<linesRead, ref_states, num_waypoints, totalSteps, dt,
                 reference_grid, x0, initRet, runRet, initCalls, runCalls,
                 outputStatesApp, outputControlsApp, output_states_app,
                 output_controls_app, cerr, exitStatus>>
  /\ UNCHANGED vcVars

\* a mutant: the empty reference is reported but main carries on
CheckEmpty_noexit ==
  /\ pc = "check_empty"
  /\ IF ref_states = <<>>
       THEN cerr' = Append(cerr, MsgEmpty)
       ELSE UNCHANGED cerr
  /\ pc' = "timing"
  /\ UNCHANGED <<xref, line, linesRead, ref_states, num_waypoints, totalSteps,
                 dt, reference_grid, x0, initRet, runRet, initCalls, runCalls,
                 outputStatesApp, outputControlsApp, output_states_app,
                 output_controls_app, exitStatus>>
  /\ UNCHANGED vcVars

\* if(ref_states.empty()){ cerr << ...; exit(EXIT_FAILURE); }
CheckEmpty ==
  /\ pc = "check_empty"
  /\ IF ref_states = <<>>
       THEN Exit(<<MsgEmpty>>)
       ELSE /\ pc' = "timing"
            /\ UNCHANGED <<cerr, exitStatus>>
  /\ UNCHANGED <<xref, line, linesRead, ref_states, num_waypoints, totalSteps,
                 dt, reference_grid, x0, initRet, runRet, initCalls, runCalls,
                 outputStatesApp, outputControlsApp, output_states_app,
                 output_controls_app>>
  /\ UNCHANGED vcVars

\* --------------------------------------------------- main: configuration
\* const int totalSteps = num_waypoints - 1; const double dt = tTotal / totalSteps;
\* dt is kept as the fraction <<tTotal, totalSteps>>.  A zero denominator is
\* the IEEE division 70.0 / 0, which yields infinity and does not trap.
Timing ==
  /\ pc = "timing"
  /\ totalSteps' = num_waypoints - 1
  /\ dt' = <<tTotal, num_waypoints - 1>>
  /\ pc' = "grid"
  /\ UNCHANGED <<xref, line, linesRead, ref_states, num_waypoints,
                 reference_grid, x0, initRet, runRet, initCalls, runCalls,
                 outputStatesApp, outputControlsApp, output_states_app,
                 output_controls_app, cerr, exitStatus>>
  /\ UNCHANGED vcVars

\* VariablesGrid reference_grid(3, tStart, tTotal, totalSteps) and the loop
\* reference_grid(i, s) = ref_states[i][s] for i < totalSteps
BuildGrid ==
  /\ pc = "grid"
  /\ reference_grid' = [i \in 1..totalSteps |-> ref_states[i]]
  /\ pc' = "x0"
  /\ UNCHANGED <<xref, line, linesRead, ref_states, num_waypoints, totalSteps,
                 dt, x0, initRet, runRet, initCalls, runCalls,
                 outputStatesApp, outputControlsApp, output_states_app,
                 output_controls_app, cerr, exitStatus>>
  /\ UNCHANGED vcVars

\* DVector x0(3); x0(k) = ref_states[0][k];
SetX0 ==
  /\ pc = "x0"
  /\ x0' = <<ref_states[1][1], ref_states[1][2], ref_states[1][3]>>
  /\ pc' = "sim_init"
  /\ UNCHANGED <<xref, line, linesRead, ref_states, num_waypoints, totalSteps,
                 dt, reference_grid, initRet, runRet, initCalls, runCalls,
                 outputStatesApp, outputControlsApp, output_states_app,
                 output_controls_app, cerr, exitStatus>>
  /\ UNCHANGED vcVars

\* ------------------------------------------------------ main: simulation
\* a mutant: the value returned by sim.init is not looked at
SimInit_unchecked ==
  /\ pc = "sim_init"
  /\ \E ret \in ReturnValue : initRet' = ret
  /\ initCalls' = initCalls + 1
  /\ pc' = "sim_run"
  /\ UNCHANGED <<cerr, exitStatus>>
  /\ UNCHANGED <<xref, line, linesRead, ref_states, num_waypoints, totalSteps,
                 dt, reference_grid, x0, runRet, runCalls,
                 outputStatesApp, outputControlsApp, output_states_app,
                 output_controls_app>>
  /\ UNCHANGED vcVars

\* if (sim.init(x0) != SUCCESSFUL_RETURN) exit(EXIT_FAILURE);
SimInit ==
  /\ pc = "sim_init"
  /\ \E ret \in ReturnValue :
       /\ initRet' = ret
       /\ IF ret # "SUCCESSFUL_RETURN"
            THEN Exit(<<>>)
            ELSE /\ pc' = "sim_run"
                 /\ UNCHANGED <<cerr, exitStatus>>
  /\ initCalls' = initCalls + 1
  /\ UNCHANGED <<xref, line, linesRead, ref_states, num_waypoints, totalSteps,
                 dt, reference_grid, x0, runRet, runCalls,
                 outputStatesApp, outputControlsApp, output_states_app,
                 output_controls_app>>
  /\ UNCHANGED vcVars

\* a mutant: a failed sim.run is tried again
SimRun_retry ==
  /\ pc = "sim_run"
  /\ runCalls < 2
  /\ \E ret \in ReturnValue :
       /\ runRet' = ret
       /\ IF ret # "SUCCESSFUL_RETURN"
            THEN /\ pc' = "sim_run"
                 /\ UNCHANGED <<outputStatesApp, outputControlsApp>>
            ELSE /\ pc' = "open_outputs"
                 /\ \E n \in 1..MaxOut, m \in 1..MaxOut :
                      /\ outputStatesApp' = n
                      /\ outputControlsApp' = m
  /\ runCalls' = runCalls + 1
  /\ UNCHANGED <<cerr, exitStatus>>
  /\ UNCHANGED <<xref, line, linesRead, ref_states, num_waypoints, totalSteps,
                 dt, reference_grid, x0, initRet, initCalls,
                 output_states_app, output_controls_app>>
  /\ UNCHANGED vcVars

\* if (sim.run() != SUCCESSFUL_RETURN) exit(EXIT_FAILURE);
\* sim.getProcessDifferentialStates(outputStatesApp);
\* sim.getFeedbackControl(outputControlsApp);
\* A successful run has logged at least one point in each grid.
SimRun ==
  /\ pc = "sim_run"
  /\ \E ret \in ReturnValue :
       /\ runRet' = ret
       /\ IF ret # "SUCCESSFUL_RETURN"
            THEN /\ Exit(<<>>)
                 /\ UNCHANGED <<outputStatesApp, outputControlsApp>>
            ELSE /\ pc' = "open_outputs"
                 /\ UNCHANGED <<cerr, exitStatus>>
                 /\ \E n \in 1..MaxOut, m \in 1..MaxOut :
                      /\ outputStatesApp' = n
                      /\ outputControlsApp' = m
  /\ runCalls' = runCalls + 1
  /\ UNCHANGED <<xref, line, linesRead, ref_states, num_waypoints, totalSteps,
                 dt, reference_grid, x0, initRet, initCalls,
                 output_states_app, output_controls_app>>
  /\ UNCHANGED vcVars

\* ---------------------------------------------------------- main: output
\* std::ofstream output_states_app(...); std::ofstream output_controls_app(...);
OpenOutputs ==
  /\ pc = "open_outputs"
  /\ output_states_app' = [open |-> TRUE, rows |-> <<>>]
  /\ output_controls_app' = [open |-> TRUE, rows |-> <<>>]
  /\ pc' = "write_states"
  /\ UNCHANGED <<xref, line, linesRead, ref_states, num_waypoints, totalSteps,
                 dt, reference_grid, x0, initRet, runRet, initCalls, runCalls,
                 outputStatesApp, outputControlsApp, cerr, exitStatus>>
  /\ UNCHANGED vcVars

\* for (i = 0; i < points of outputStatesApp; i++) output_states_app << row i
WriteStates ==
  /\ pc = "write_states"
  /\ output_states_app' =
       [output_states_app EXCEPT !.rows = [i \in 1..outputStatesApp |-> i - 1]]
  /\ pc' = "write_controls"
  /\ UNCHANGED <<xref, line, linesRead, ref_states, num_waypoints, totalSteps,
                 dt, reference_grid, x0, initRet, runRet, initCalls, runCalls,
                 outputStatesApp, outputControlsApp, output_controls_app,
                 cerr, exitStatus>>
  /\ UNCHANGED vcVars

\* for (i = 0; i < points of outputControlsApp; i++) output_controls_app << row i
WriteControls ==
  /\ pc = "write_controls"
  /\ output_controls_app' =
       [output_controls_app EXCEPT !.rows = [i \in 1..outputControlsApp |-> i - 1]]
  /\ pc' = "return"
  /\ UNCHANGED <<xref, line, linesRead, ref_states, num_waypoints, totalSteps,
                 dt, reference_grid, x0, initRet, runRet, initCalls, runCalls,
                 outputStatesApp, outputControlsApp, output_states_app,
                 cerr, exitStatus>>
  /\ UNCHANGED vcVars

\* return 0;
Return0 ==
  /\ pc = "return"
  /\ exitStatus' = "0"
  /\ pc' = "exited"
  /\ UNCHANGED <<xref, line, linesRead, ref_states, num_waypoints, totalSteps,
                 dt, reference_grid, x0, initRet, runRet, initCalls, runCalls,
                 outputStatesApp, outputControlsApp, output_states_app,
                 output_controls_app, cerr>>
  /\ UNCHANGED vcVars

Next ==
  \/ OpenFile
  \/ CheckOpen
  \/ LoopBody
  \/ LoopEnd
  \/ CheckEmpty
  \/ Timing
  \/ BuildGrid
  \/ SetX0
  \/ SimInit
  \/ SimRun
  \/ OpenOutputs
  \/ WriteStates
  \/ WriteControls
  \/ Return0

Spec == Init /\ [][Next]_vars

\* main runs to its end: no step of a sequential program is delayed for ever
FairSpec == Spec /\ WF_vars(Next)

\* ------------------------------------------------------- ValidityChecker
\* The header declares the class; the bodies of isValid and clearance are not
\* part of the sources at hand.  They are taken to be what the documentation
\* calls them, a predicate (and a distance) of the state: any fixed function
\* of the state, chosen when the checker is built.
State == 1..NumStates

\* ValidityChecker(const ob::SpaceInformationPtr &si)
VCInit ==
  /\ MainInit
  /\ vcState \in State
  /\ vcChecker = [si |-> "si"]
  /\ vcValid \in [State -> BOOLEAN]
  /\ vcClearance \in [State -> 0..1]
  /\ vcAnswers = [s \in State |-> {}]
  /\ vcDistances = [s \in State |-> {}]
  /\ vcCalls = 0

\* the body of isValid: the predicate of the state fixed at construction
isValidBody(s) == vcValid[s]

\* the body of clearance: the distance of the state fixed at construction
clearanceBody(s) == vcClearance[s]

\* the planner samples another state between two calls
Sample ==
  /\ \E s \in State : vcState' = s
  /\ UNCHANGED <<vcChecker, vcValid, vcClearance, vcAnswers, vcDistances, vcCalls>>
  /\ UNCHANGED mainVars

\* a mutant: isValid without the const qualifiers, it normalises the state
\* it is given and counts its calls in the checker
isValid_mutating ==
  /\ vcCalls < MaxCalls
  /\ vcAnswers' = [vcAnswers EXCEPT ![vcState] = @ \cup {isValidBody(vcState)}]
  /\ vcCalls' = vcCalls + 1
  /\ vcState' = 1
  /\ vcChecker' = [si |-> "used"]
  /\ UNCHANGED <<vcValid, vcClearance, vcDistances>>
  /\ UNCHANGED mainVars

\* virtual bool isValid(const ob::State* state) const
isValid ==
  /\ vcCalls < MaxCalls
  /\ vcAnswers' = [vcAnswers EXCEPT ![vcState] = @ \cup {isValidBody(vcState)}]
  /\ vcCalls' = vcCalls + 1
  /\ UNCHANGED <<vcState, vcChecker, vcValid, vcClearance, vcDistances>>
  /\ UNCHANGED mainVars

\* double clearance(const ob::State* state) const
clearance ==
  /\ vcCalls < MaxCalls
  /\ vcDistances' = [vcDistances EXCEPT ![vcState] = @ \cup {clearanceBody(vcState)}]
  /\ vcCalls' = vcCalls + 1
  /\ UNCHANGED <<vcState, vcChecker, vcValid, vcClearance, vcAnswers>>
  /\ UNCHANGED mainVars

VCNext == Sample \/ isValid \/ clearance

VCSpec == VCInit /\ [][VCNext]_vars
\* ================================================================ claims
Failure  == "EXIT_FAILURE"
NoOutput == output_states_app = NoFile /\ output_controls_app = NoFile
NoSim    == /\ initCalls = 0 /\ runCalls = 0
            /\ initRet = "not_called" /\ runRet = "not_called"
NoConfig == totalSteps = 0 /\ dt = <<0, 1>> /\ reference_grid = <<>>
\* main is at or past the solver configuration
Configuring == \/ pc \in {"timing", "grid", "x0", "sim_init", "sim_run",
                          "open_outputs", "write_states", "write_controls",
                          "return"}
               \/ initCalls > 0

\* C1: when the reference file cannot be opened, main has read no waypoint,
\* configured and run nothing and created no output file, and once past the
\* check it has reported the error and exited with a failure status.
C1_OpenFailure ==
  xref = "failbit" =>
    /\ pc \in {"check_open", "exited"}
    /\ linesRead = 0 /\ ref_states = <<>> /\ num_waypoints = 0
    /\ NoConfig /\ NoSim /\ NoOutput
    /\ pc = "exited" => exitStatus = Failure /\ cerr = <<MsgOpen>>

C1_Witness == xref = "failbit" /\ pc = "exited"

\* C2: a file that opens and yields no line makes main exit with a failure
\* status after the loop, with no output file and no simulation call; every
\* run that reaches the solver configuration has a non-empty ref_states.
C2_EmptyReference ==
  /\ Configuring => ref_states # <<>> /\ num_waypoints >= 1
  /\ (xref = "eofbit|failbit" /\ ref_states = <<>>) =>
        /\ pc \in {"check_empty", "exited"}
        /\ NoConfig /\ NoSim /\ NoOutput
        /\ pc = "exited" => exitStatus = Failure /\ cerr = <<MsgEmpty>>

C2_Witness == xref = "eofbit|failbit" /\ ref_states = <<>> /\ pc = "exited"

\* the number of parsable numbers a line starts with
LeadingNumbers(l) ==
  CHOOSE n \in 0..Len(l) :
    /\ \A i \in 1..n : l[i] \in Numeric
    /\ n = Len(l) \/ l[n + 1] \notin Numeric

\* the waypoint a line stands for: its first numbers in order, then zeros
Waypoint(l) ==
  [k \in 1..3 |-> IF k <= LeadingNumbers(l) THEN StrToD(l[k]) ELSE 0]

C3_Counts ==
  /\ num_waypoints = Len(ref_states)
  /\ num_waypoints = linesRead
  /\ \A k \in 1..Len(ref_states) : Len(ref_states[k]) = 3

C3_Step ==
  IF linesRead' # linesRead
    THEN /\ linesRead' = linesRead + 1
         /\ ref_states' = Append(ref_states, Waypoint(line'))
    ELSE ref_states' = ref_states

C4_OutputsAfterSim ==
  /\ ~NoOutput => /\ initRet = "SUCCESSFUL_RETURN" /\ runRet = "SUCCESSFUL_RETURN"
                  /\ initCalls = 1 /\ runCalls = 1
  /\ runCalls > 0 => initRet = "SUCCESSFUL_RETURN" /\ initCalls = 1
  /\ initRet = "OTHER_RETURN" =>
        pc = "exited" /\ exitStatus = Failure /\ runCalls = 0 /\ NoOutput
  /\ runRet = "OTHER_RETURN" =>
        pc = "exited" /\ exitStatus = Failure /\ NoOutput

C4_Witness ==
  /\ output_states_app.open /\ output_controls_app.open
  /\ output_states_app.rows # <<>> /\ output_controls_app.rows # <<>>

\* the five ways main ends
OutcomeNoFile   == exitStatus = Failure /\ xref = "failbit" /\ cerr = <<MsgOpen>>
OutcomeEmpty    == /\ exitStatus = Failure /\ xref = "eofbit|failbit"
                   /\ ref_states = <<>> /\ cerr = <<MsgEmpty>>
OutcomeInitFail == /\ exitStatus = Failure /\ initRet = "OTHER_RETURN"
                   /\ runCalls = 0 /\ NoOutput
OutcomeRunFail  == /\ exitStatus = Failure /\ initRet = "SUCCESSFUL_RETURN"
                   /\ runRet = "OTHER_RETURN" /\ NoOutput
OutcomeSuccess  == /\ exitStatus = "0"
                   /\ initRet = "SUCCESSFUL_RETURN" /\ runRet = "SUCCESSFUL_RETURN"
                   /\ output_states_app.open /\ output_controls_app.open
                   /\ Len(output_states_app.rows) = outputStatesApp
                   /\ Len(output_controls_app.rows) = outputControlsApp

Outcomes == <<OutcomeNoFile, OutcomeEmpty, OutcomeInitFail, OutcomeRunFail,
              OutcomeSuccess>>

ExactlyOneOutcome == Cardinality({i \in 1..5 : Outcomes[i]}) = 1

\* the order of main's steps
Rank(p) == CASE p = "open" -> 0
             [] p = "check_open" -> 1
             [] p = "getline" -> 2
             [] p = "check_empty" -> 3
             [] p = "timing" -> 4
             [] p = "grid" -> 5
             [] p = "x0" -> 6
             [] p = "sim_init" -> 7
             [] p = "sim_run" -> 8
             [] p = "open_outputs" -> 9
             [] p = "write_states" -> 10
             [] p = "write_controls" -> 11
             [] p = "return" -> 12
             [] p = "exited" -> 13

\* a step goes forward: to the next step or to the exit; only the loading
\* loop comes back to its own position, and then it has read one more line
C5_Forward ==
  \/ pc' = "exited" /\ pc # "exited"
  \/ Rank(pc') = Rank(pc) + 1
  \/ pc = "getline" /\ pc' = "getline" /\ linesRead' = linesRead + 1

VCCalled == vcCalls' # vcCalls

C7_TotalStepsPositive ==
  pc \in {"grid", "x0", "sim_init", "sim_run", "open_outputs", "write_states",
          "write_controls", "return"} =>
    totalSteps >= 1 /\ dt[2] # 0

=============================================================================
